---- MODULE Spec2Model ----
(***************************************************************************)
(* Model of src/src/components/deploy/index.tsx: the DeployView component  *)
(* and its deployProgram() handler, which uploads a program blob to the    *)
(* ledger as one account-creation transaction, one write transaction per   *)
(* 900-byte chunk and one finalize transaction.                            *)
(*                                                                         *)
(* deployProgram is an async function: it runs synchronously between two   *)
(* awaits, so the model has one action per await outcome, each holding the *)
(* whole code up to the next await.  The values the running call captured  *)
(* when the button was clicked (programData, deploymentStatus) are the     *)
(* clos* variables: React state setters do not change them.                *)
(* The libraries (Fireblocks adapter, web3.js) are not part of the         *)
(* repository: each of their calls either returns or throws.               *)
(***************************************************************************)
EXTENDS Integers, Sequences, FiniteSets, TLC

VARIABLES
    apiKey, apiSecretPath, vaultAccountId,  \* import.meta.env values ("" = unset)
    programData,        \* useState<Buffer | null>: [loaded, file], see Bytes
    deploymentStatus,   \* useState<DeploymentStatus>
    toast,              \* title of the last toast shown ("" = none yet)
    pc,                 \* the await deployProgram is suspended at
    txPhase,            \* inside sendAndConfirmTransaction: "send", "confirm" or "-"
    closData,           \* programData as captured by the running call
    closLogs,           \* deploymentStatus.logs as captured by the running call
    offset,             \* let offset (line 244)
    payerPublicKey,     \* const payerPublicKey (line 162)
    programKeypair,     \* let programKeypair (line 167): its public key
    keypairError,       \* the error caught at line 178 ("" = none)
    error,              \* the error caught at line 336 ("" = none)
    thrown,             \* what an awaited or library call of this run threw ("" = nothing)
    minimumBalance,     \* const minimumBalanceForRentExemption (line 207)
    rentQueries,        \* getMinimumBalanceForRentExemption calls of this run
    submitted,          \* transactions of this run handed to the ledger, in order
    runs                \* number of runs started

vars == << apiKey, apiSecretPath, vaultAccountId, programData, deploymentStatus,
           toast, pc, txPhase, closData, closLogs, offset, payerPublicKey,
           programKeypair, keypairError, error, thrown, minimumBalance,
           rentQueries, submitted, runs >>

(* ------------------------------ bounds -------------------------------- *)

\* Number of deployment runs one behaviour starts.
MaxRuns == 2

\* Length of the longest uploaded file.
MaxBlobLen == 2000

(* ----------------------------- constants ------------------------------ *)

chunkSize == 900

Min(a, b) == IF a < b THEN a ELSE b

\* Content of an uploaded file of length L: byte i is not periodic in chunkSize.
Byte(i) == (7 * i + 3) % 256

Blob(L) == [i \in 1..L |-> Byte(i)]

\* File lengths the user uploads: empty, one byte, around the chunk size, long.
Lengths == {0, 1, chunkSize, chunkSize + 1, 2 * chunkSize, MaxBlobLen}

\* programData === null.
NoData == [loaded |-> FALSE, file |-> 0]

\* A loaded buffer is held in the state by the file it was read from, and a
\* file is known by its length: Bytes is the buffer's content.
Bytes(data) == IF data.loaded THEN Blob(data.file) ELSE << >>

WalletKey == "walletKey"
GeneratedKey == "generatedKey"
NoKey == ""
BPF_LOADER_PROGRAM_ID == "BPFLoader"
SysvarRent == "SysvarRent111111111111111111111111111111111"

\* The ledger's rent for an account of the given size (external).
RentFor(space) == (space + 128) * 6960

(* ------------------------------- logs --------------------------------- *)

\* One log line: the fixed text, and the values interpolated into it.
Log(msg, num, tx, text) == [msg |-> msg, num |-> num, tx |-> tx, text |-> text]

Line(msg) == Log(msg, -1, -1, "")

addLog(ds, log) == [ds EXCEPT !.logs = Append(@, log)]

RECURSIVE addLogs(_, _)
addLogs(ds, logs) ==
    IF logs = << >> THEN ds ELSE addLogs(addLog(ds, Head(logs)), Tail(logs))

(* --------------------------- status records --------------------------- *)

NoProgramId == ""

\* The initial state of useState<DeploymentStatus> (lines 67-71).
IdleStatus == [status |-> "idle", message |-> "", logs |-> << >>, programId |-> NoProgramId]

\* Mutant of StartStatus: the new status is spread over the previous one and
\* keeps its programId.
StartStatusKeepsId ==
    [status |-> "deploying",
     message |-> "Starting Solana program deployment...",
     logs |-> << Line("Starting Solana program deployment...") >>,
     programId |-> deploymentStatus.programId]

\* setDeploymentStatus at lines 130-134.
StartStatus ==
    [status |-> "deploying",
     message |-> "Starting Solana program deployment...",
     logs |-> << Line("Starting Solana program deployment...") >>,
     programId |-> NoProgramId]

\* setDeploymentStatus at lines 319-327: logs come from the captured status.
SuccessStatus(logs, key) ==
    [status |-> "success",
     message |-> "Program deployment completed successfully!",
     logs |-> Append(logs, Line("Program deployment completed successfully!")),
     programId |-> key]

\* Mutant of ErrorStatus: the catch block leaves the status at deploying.
ErrorStatusStillDeploying(logs, err) ==
    [status |-> "deploying",
     message |-> "Error deploying program: " \o err,
     logs |-> Append(logs, Log("Error: ", -1, -1, err)),
     programId |-> NoProgramId]

\* setDeploymentStatus at lines 338-345: logs come from the captured status.
ErrorStatus(logs, err) ==
    [status |-> "error",
     message |-> "Error deploying program: " \o err,
     logs |-> Append(logs, Log("Error: ", -1, -1, err)),
     programId |-> NoProgramId]

(* ------------------------ buffers and payloads ------------------------ *)

\* Buffer.slice(start, end): both ends are clamped to the buffer's length.
Slice(buf, start, end) == SubSeq(buf, Min(start, Len(buf)) + 1, Min(end, Len(buf)))

\* Mutant of ChunkAt: the slice ends one byte early.
ChunkAtShort(data, off) == Slice(data, off, off + chunkSize - 1)

\* const chunk = programData.slice(offset, offset + chunkSize) (line 247).
ChunkAt(data, off) == Slice(data, off, off + chunkSize)

\* Mutant of UInt32LE: the bytes are written most significant first.
UInt32BE(n) ==
    << (n \div 16777216) % 256, (n \div 65536) % 256, (n \div 256) % 256, n % 256 >>

\* Buffer.writeUInt32LE(n): the four bytes of n, least significant first.
UInt32LE(n) ==
    << n % 256, (n \div 256) % 256, (n \div 65536) % 256, (n \div 16777216) % 256 >>

\* dataLayout (lines 250-253): discriminant 0, the offset, the chunk.
WriteData(off, chunk) == UInt32LE(0) \o UInt32LE(off) \o chunk

\* finalizeData (lines 284-285): discriminant 1.
FinalizeData == UInt32LE(1)

\* The reading of a four-byte little-endian field at 1-based position p.
ReadUInt32LE(buf, p) ==
    buf[p] + 256 * buf[p + 1] + 65536 * buf[p + 2] + 16777216 * buf[p + 3]

Key(pubkey, isSigner, isWritable) ==
    [pubkey |-> pubkey, isSigner |-> isSigner, isWritable |-> isWritable]

(* ---------------------------- transactions ---------------------------- *)

\* A transaction as the ledger sees it.  signatures: the keys that signed
\* locally (partialSign) before sendAndConfirmTransaction was called.
Tx(kind, keys, data, lamports, space, signatures) ==
    [kind |-> kind, programId |-> BPF_LOADER_PROGRAM_ID, keys |-> keys,
     data |-> data, lamports |-> lamports, space |-> space,
     signatures |-> signatures, state |-> "built"]

\* createAccountTransaction (lines 218-230), partialSign included.
CreateAccountTx(payer, newAccount, lamports, space) ==
    Tx("createAccount",
       << Key(payer, TRUE, TRUE), Key(newAccount, TRUE, TRUE) >>,
       << >>, lamports, space, {newAccount})

\* Mutant of WriteTx: the write lists a freshly generated key, not the run's.
WriteTxGeneratedKey(key, off, chunk) ==
    Tx("write", << Key(GeneratedKey, TRUE, TRUE) >>, WriteData(off, chunk), 0, 0, {})

\* writeTransaction (lines 249-267): never signed locally.
WriteTx(key, off, chunk) ==
    Tx("write", << Key(key, TRUE, TRUE) >>, WriteData(off, chunk), 0, 0, {})

\* finalizeTransaction (lines 283-306): never signed locally.
FinalizeTx(key) ==
    Tx("finalize", << Key(key, TRUE, TRUE), Key(SysvarRent, FALSE, FALSE) >>,
       FinalizeData, 0, 0, {})

\* The transaction the run is inside sendAndConfirmTransaction with.
PendingTx ==
    CASE pc = "create" ->
            CreateAccountTx(payerPublicKey, programKeypair, minimumBalance,
                            Len(Bytes(closData)))
      [] pc = "write" -> WriteTx(programKeypair, offset, ChunkAt(Bytes(closData), offset))
      [] OTHER -> FinalizeTx(programKeypair)

\* The last submitted transaction with its state changed.
Settle(txs, state) == [txs EXCEPT ![Len(txs)].state = state]

(* -------------------------------- Init -------------------------------- *)

EnvValues == {"", "set"}

Init ==
    /\ apiKey \in EnvValues
    /\ apiSecretPath \in EnvValues
    /\ vaultAccountId \in EnvValues
    /\ programData = NoData
    /\ deploymentStatus = IdleStatus
    /\ toast = ""
    /\ pc = "none"
    /\ txPhase = "-"
    /\ closData = NoData
    /\ closLogs = << >>
    /\ offset = 0
    /\ payerPublicKey = NoKey
    /\ programKeypair = NoKey
    /\ keypairError = ""
    /\ error = ""
    /\ thrown = ""
    /\ minimumBalance = 0
    /\ rentQueries = 0
    /\ submitted = << >>
    /\ runs = 0

env == << apiKey, apiSecretPath, vaultAccountId >>

\* What a step of the running call leaves alone unless it says otherwise.
captured == << env, programData, closData, closLogs, runs >>

(* ------------------------------ actions ------------------------------- *)

\* handleFileChange and reader.onload (lines 76-98): an empty file's
\* ArrayBuffer is an object, so it is stored like any other.
UploadFile ==
    /\ \E L \in Lengths : programData' = [loaded |-> TRUE, file |-> L]
    /\ toast' = "File uploaded"
    /\ UNCHANGED << env, deploymentStatus, pc, txPhase, closData, closLogs, offset,
                    payerPublicKey, programKeypair, keypairError, error, thrown,
                    minimumBalance, rentQueries, submitted, runs >>

\* Mutant of ButtonEnabled: the button is never disabled.
ButtonAlwaysEnabled == TRUE

\* The Deploy button is disabled while a run is deploying (line 423).
ButtonEnabled == deploymentStatus.status # "deploying"

\* Mutant of InputsMissing: the program data is not checked.
InputsMissingKeysOnly == apiKey = "" \/ apiSecretPath = "" \/ vaultAccountId = ""

\* The validation at line 116.
InputsMissing ==
    apiKey = "" \/ apiSecretPath = "" \/ vaultAccountId = "" \/ ~programData.loaded

\* deployProgram, lines 116-126: the early return.
DeployRejected ==
    /\ ButtonEnabled
    /\ InputsMissing
    /\ toast' = "Missing required fields"
    /\ UNCHANGED << env, programData, deploymentStatus, pc, txPhase, closData,
                    closLogs, offset, payerPublicKey, programKeypair, keypairError,
                    error, thrown, minimumBalance, rentQueries, submitted, runs >>

\* deployProgram, lines 128-159: up to await FireblocksConnectionAdapter.create.
DeployStart ==
    /\ ButtonEnabled
    /\ ~InputsMissing
    /\ runs < MaxRuns
    /\ runs' = runs + 1
    /\ closData' = programData
    /\ closLogs' = deploymentStatus.logs
    /\ deploymentStatus' =
           addLogs(StartStatus,
                   << Line("Configuring Fireblocks connection..."),
                      Line("Creating connection to Solana devnet...") >>)
    /\ pc' = "connect"
    /\ txPhase' = "-"
    /\ offset' = 0
    /\ payerPublicKey' = NoKey
    /\ programKeypair' = NoKey
    /\ keypairError' = ""
    /\ error' = ""
    /\ thrown' = ""
    /\ minimumBalance' = 0
    /\ rentQueries' = 0
    /\ submitted' = << >>
    /\ UNCHANGED << env, programData, toast >>

\* Mutant of Catch: the failed run goes back to the account creation.
CatchRetry(err) ==
    /\ error' = err
    /\ deploymentStatus' = addLog(deploymentStatus, Log("Error: ", -1, -1, err))
    /\ toast' = "Deployment failed"
    /\ pc' = "create"
    /\ txPhase' = "send"

\* The catch block, lines 336-354.
Catch(err) ==
    /\ error' = err
    /\ deploymentStatus' = ErrorStatus(closLogs, err)
    /\ toast' = "Deployment failed"
    /\ pc' = "done"
    /\ txPhase' = "-"

\* await FireblocksConnectionAdapter.create(...) rejects (line 156).
ConnectFail ==
    /\ pc = "connect"
    /\ thrown' = "ConnectionError"
    /\ Catch(thrown')
    /\ UNCHANGED << captured, offset, payerPublicKey, programKeypair, keypairError,
                    minimumBalance, rentQueries, submitted >>

\* Lines 169-187: new Keypair(...) returns, or throws and a key is generated.
KeypairLogs(throws) ==
    IF throws
    THEN << Line("Unable to use connected wallet as program keypair, generating new one..."),
            Log("Generated new program keypair: ", -1, -1, GeneratedKey) >>
    ELSE << Log("Using connected wallet as program keypair: ", -1, -1, WalletKey) >>

\* Lines 156-208: the connection is there; up to the await of the rent query.
ConnectOk ==
    /\ pc = "connect"
    /\ \E throws \in BOOLEAN :
        /\ payerPublicKey' = WalletKey
        /\ programKeypair' = IF throws THEN GeneratedKey ELSE WalletKey
        /\ keypairError' = IF throws THEN "KeypairError" ELSE ""
        /\ IF ~closData.loaded
           THEN /\ thrown' = "Program data not available. Please upload a program file."
                /\ Catch(thrown')
                /\ UNCHANGED rentQueries
           ELSE /\ deploymentStatus' =
                       addLogs(deploymentStatus,
                               << Log("Deployer account: ", -1, -1, WalletKey) >>
                               \o KeypairLogs(throws)
                               \o << Line("Checking program file: "),
                                     Log("Program size: ", Len(Bytes(closData)), -1, "") >>)
                /\ rentQueries' = rentQueries + 1
                /\ pc' = "rent"
                /\ UNCHANGED << error, thrown, toast, txPhase >>
    /\ UNCHANGED << captured, offset, minimumBalance, submitted >>

\* await connection.getMinimumBalanceForRentExemption(...) rejects (line 208).
RentFail ==
    /\ pc = "rent"
    /\ thrown' = "RentQueryError"
    /\ Catch(thrown')
    /\ UNCHANGED << captured, offset, payerPublicKey, programKeypair, keypairError,
                    minimumBalance, rentQueries, submitted >>

\* Lines 207-230 when createAccountTransaction.partialSign throws.
RentOkSignThrows ==
    /\ pc = "rent"
    /\ minimumBalance' = RentFor(Len(Bytes(closData)))
    /\ thrown' = "PartialSignError"
    /\ Catch(thrown')
    /\ UNCHANGED << captured, offset, payerPublicKey, programKeypair, keypairError,
                    rentQueries, submitted >>

\* Lines 207-236: up to await sendAndConfirmTransaction of the account creation.
RentOk ==
    /\ pc = "rent"
    /\ minimumBalance' = RentFor(Len(Bytes(closData)))
    /\ deploymentStatus' =
           addLogs(deploymentStatus,
                   << Log("Minimum balance for rent exemption: ",
                          RentFor(Len(Bytes(closData))), -1, ""),
                      Line("Deploying program..."),
                      Line("Creating program account...") >>)
    /\ pc' = "create"
    /\ txPhase' = "send"
    /\ UNCHANGED << captured, toast, offset, payerPublicKey, programKeypair,
                    keypairError, error, thrown, rentQueries, submitted >>

\* Mutant of LoopCond: the loop also runs when offset has reached the length.
LoopCondInclusive(off, data) == off <= Len(data)

\* The loop condition at line 246.
LoopCond(off, data) == off < Len(data)

\* Mutant of NextOffset: the offset skips one byte after every chunk.
NextOffsetPastChunk(off) == off + chunkSize + 1

\* offset += chunkSize (line 278).
NextOffset(off) == off + chunkSize

\* The head of the while loop with the status ds and the offset off: into the
\* next write (lines 246-273), or out of the loop into finalize (lines 281-312).
LoopHead(ds, off) ==
    /\ offset' = off
    /\ txPhase' = "send"
    /\ IF LoopCond(off, Bytes(closData))
       THEN /\ deploymentStatus' = ds
            /\ pc' = "write"
       ELSE /\ deploymentStatus' = addLog(ds, Line("Finalizing program..."))
            /\ pc' = "finalize"

\* The transaction hash sendAndConfirmTransaction returns.
TxHash == Len(submitted)

InTx == pc \in {"create", "write", "finalize"}

\* sendAndConfirmTransaction (lines 232, 269, 308): the adapter signs and
\* the ledger takes the transaction, which is then in flight.
SendOk ==
    /\ InTx
    /\ txPhase = "send"
    /\ submitted' = Append(submitted, [PendingTx EXCEPT !.state = "inflight"])
    /\ txPhase' = "confirm"
    /\ UNCHANGED << captured, deploymentStatus, toast, pc, offset, payerPublicKey,
                    programKeypair, keypairError, error, thrown, minimumBalance,
                    rentQueries >>

\* sendAndConfirmTransaction rejects before the ledger took the transaction:
\* the remote signer refused, or the submission failed.
SendFail ==
    /\ InTx
    /\ txPhase = "send"
    /\ thrown' \in {"SigningError", "SubmissionError"}
    /\ Catch(thrown')
    /\ UNCHANGED << captured, offset, payerPublicKey, programKeypair, keypairError,
                    minimumBalance, rentQueries, submitted >>

\* Mutant of ConfirmFail: a failed chunk write is logged inside the loop and
\* the loop goes on with the next chunk.
ConfirmFailContinue ==
    /\ InTx
    /\ txPhase = "confirm"
    /\ submitted' = Settle(submitted, "failed")
    /\ thrown' = "ConfirmationError"
    /\ IF pc = "write"
       THEN /\ LoopHead(addLog(deploymentStatus, Log("Error: ", -1, -1, thrown')),
                        NextOffset(offset))
            /\ UNCHANGED << error, toast >>
       ELSE /\ Catch(thrown')
            /\ UNCHANGED offset
    /\ UNCHANGED << captured, payerPublicKey, programKeypair, keypairError,
                    minimumBalance, rentQueries >>

\* Mutant of ConfirmFail: a transaction whose confirmation failed is logged
\* and sent again.
ConfirmFailRetry ==
    /\ InTx
    /\ txPhase = "confirm"
    /\ submitted' = Settle(submitted, "failed")
    /\ thrown' = "ConfirmationError"
    /\ deploymentStatus' = addLog(deploymentStatus, Log("Error: ", -1, -1, thrown'))
    /\ txPhase' = "send"
    /\ UNCHANGED << captured, toast, pc, offset, payerPublicKey, programKeypair,
                    keypairError, error, minimumBalance, rentQueries >>

\* sendAndConfirmTransaction rejects while waiting for the confirmation.
ConfirmFail ==
    /\ InTx
    /\ txPhase = "confirm"
    /\ submitted' = Settle(submitted, "failed")
    /\ thrown' = "ConfirmationError"
    /\ Catch(thrown')
    /\ UNCHANGED << captured, offset, payerPublicKey, programKeypair, keypairError,
                    minimumBalance, rentQueries >>

\* Lines 237-246: the account creation is confirmed.
CreateConfirmed ==
    /\ pc = "create"
    /\ txPhase = "confirm"
    /\ submitted' = Settle(submitted, "confirmed")
    /\ LoopHead(addLogs(deploymentStatus,
                        << Log("Program account created: ", -1, TxHash, ""),
                           Line("Writing program data in chunks...") >>),
                0)
    /\ UNCHANGED << captured, toast, payerPublicKey, programKeypair, keypairError,
                    error, thrown, minimumBalance, rentQueries >>

\* Mutant of WroteLog: the confirmation of a chunk is not logged.
WroteLogMissing(ds, off, hash) == ds

\* addLog at lines 275-277.
WroteLog(ds, off, hash) == addLog(ds, Log("Wrote chunk at offset ", off, hash, ""))

\* Lines 275-279: a chunk's write is confirmed.
WriteConfirmed ==
    /\ pc = "write"
    /\ txPhase = "confirm"
    /\ submitted' = Settle(submitted, "confirmed")
    /\ LoopHead(WroteLog(deploymentStatus, offset, TxHash), NextOffset(offset))
    /\ UNCHANGED << captured, toast, payerPublicKey, programKeypair, keypairError,
                    error, thrown, minimumBalance, rentQueries >>

\* Lines 314-335: finalize is confirmed.  The addLog of line 314 is overwritten
\* by the setDeploymentStatus of line 319, which is built from the captured logs.
FinalizeConfirmed ==
    /\ pc = "finalize"
    /\ txPhase = "confirm"
    /\ submitted' = Settle(submitted, "confirmed")
    /\ deploymentStatus' = SuccessStatus(closLogs, programKeypair)
    /\ toast' = "Deployment successful"
    /\ pc' = "done"
    /\ txPhase' = "-"
    /\ UNCHANGED << captured, offset, payerPublicKey, programKeypair, keypairError,
                    error, thrown, minimumBalance, rentQueries >>

\* The steps of a running deployProgram call.
RunStep ==
    \/ ConnectFail
    \/ ConnectOk
    \/ RentFail
    \/ RentOkSignThrows
    \/ RentOk
    \/ SendOk
    \/ SendFail
    \/ ConfirmFail
    \/ CreateConfirmed
    \/ WriteConfirmed
    \/ FinalizeConfirmed

Next ==
    \/ UploadFile
    \/ DeployRejected
    \/ DeployStart
    \/ RunStep

Spec == Init /\ [][Next]_vars

\* Every await of a run settles: the call returns or throws.
FairSpec == Spec /\ WF_vars(RunStep)

(* ----------------------- what the ledger recorded ---------------------- *)

IsWrite(t) == t.kind = "write"

\* The chunk writes of the run, in submission order.
Writes == SelectSeq(submitted, IsWrite)

\* The loader's reading of a write payload: the offset, and the bytes after it.
WriteOffset(t) == ReadUInt32LE(t.data, 5)

WriteBytes(t) == SubSeq(t.data, 9, Len(t.data))

InFlight == {i \in DOMAIN submitted : submitted[i].state = "inflight"}

IsPrefix(s, t) == Len(s) <= Len(t) /\ SubSeq(t, 1, Len(s)) = s

CeilDiv(a, b) == (a + b - 1) \div b

RECURSIVE Concat(_)
Concat(chunks) ==
    IF chunks = << >> THEN << >> ELSE Head(chunks) \o Concat(Tail(chunks))

Max(S) == CHOOSE x \in S : \A y \in S : y <= x

DataLength == Len(Bytes(closData))

Terminal == pc = "done"

Succeeded == Terminal /\ deploymentStatus.status = "success"

Failed == Terminal /\ deploymentStatus.status = "error"

\* The log line of the confirmed write submitted[i].
WroteLine(i) == Log("Wrote chunk at offset ", WriteOffset(submitted[i]), i, "")

Logged(line) == \E k \in DOMAIN deploymentStatus.logs : deploymentStatus.logs[k] = line

(* -------------------------------- C1 ---------------------------------- *)

\* C1: a chunk write is submitted only when every transaction submitted
\* before it in the run is confirmed and the log holds the "Wrote chunk"
\* line of every earlier write; at most one transaction is in flight.
C1_SequentialOrdering ==
    [][ /\ Cardinality(InFlight') <= 1
        /\ (Len(submitted') = Len(submitted) + 1
              /\ submitted'[Len(submitted')].kind = "write")
           => \A i \in DOMAIN submitted :
                 /\ submitted[i].state = "confirmed"
                 /\ submitted[i].kind = "write" => Logged(WroteLine(i)) ]_vars

\* The third chunk's write is in flight.
C1_Witness ==
    /\ Len(Writes) = 3
    /\ submitted[Len(submitted)].kind = "write"
    /\ submitted[Len(submitted)].state = "inflight"

(* -------------------------------- C2 ---------------------------------- *)

\* C2: once a call of the run has thrown, the run is over with status
\* error, nothing is in flight, a failed transaction is the last one
\* submitted, and the run submits nothing more.
C2_FailStop ==
    [][ /\ thrown' # "" =>
              /\ pc' = "done"
              /\ deploymentStatus'.status = "error"
              /\ InFlight' = {}
              /\ \A i \in DOMAIN submitted' :
                    submitted'[i].state = "failed" => i = Len(submitted')
        /\ (thrown # "" /\ runs' = runs) => submitted' = submitted ]_vars

\* The confirmation of a chunk write failed with chunks left to write.
C2_Witness ==
    /\ Failed
    /\ thrown = "ConfirmationError"
    /\ submitted # << >>
    /\ submitted[Len(submitted)].kind = "write"
    /\ submitted[Len(submitted)].state = "failed"
    /\ NextOffset(offset) < DataLength

(* -------------------------------- C3 ---------------------------------- *)

\* The end of the last chunk whose write the ledger confirmed (0 if none).
LastConfirmedEnd ==
    Max({0} \cup {WriteOffset(submitted[i]) + Len(WriteBytes(submitted[i])) :
                    i \in {j \in DOMAIN submitted :
                             /\ submitted[j].kind = "write"
                             /\ submitted[j].state = "confirmed"}})

\* What a status record tells about the last confirmed offset: DeploymentStatus
\* has no such field, so it is read off the record's "Wrote chunk" lines and
\* its "Program size" line.
ReportedLastConfirmedOffset(ds) ==
    LET wrote == {k \in DOMAIN ds.logs : ds.logs[k].msg = "Wrote chunk at offset "}
        sizes == {ds.logs[k].num : k \in {j \in DOMAIN ds.logs : ds.logs[j].msg = "Program size: "}}
        last  == Max({ds.logs[k].num : k \in wrote}) + chunkSize
    IN  IF wrote = {} THEN 0
        ELSE IF sizes = {} THEN last
        ELSE Min(last, Max(sizes))

\* C3: a failed run's status record reports the end offset of the last
\* confirmed chunk.
C3_LastConfirmedOffsetReported ==
    Failed => ReportedLastConfirmedOffset(deploymentStatus) = LastConfirmedEnd

(* -------------------------------- C4 ---------------------------------- *)

\* C4: the writes of a successful run over a blob of length L > 0 are at
\* offsets 0, K, 2K, ..., each of 1..K bytes, ceil(L/K) of them (L/K when K
\* divides L), and their bytes in order are the blob.
C4_ChunkPartition ==
    (Succeeded /\ DataLength > 0) =>
        LET W == Writes
            chunks == [i \in DOMAIN W |-> WriteBytes(W[i])]
        IN  /\ Len(W) = CeilDiv(DataLength, chunkSize)
            /\ DataLength % chunkSize = 0 => Len(W) = DataLength \div chunkSize
            /\ \A i \in DOMAIN W :
                  /\ WriteOffset(W[i]) = (i - 1) * chunkSize
                  /\ Len(chunks[i]) \in 1..chunkSize
            /\ Len(Concat(chunks)) = DataLength
            /\ Concat(chunks) = Bytes(closData)

\* A successful run over a blob of exactly two chunks.
C4_Witness ==
    /\ Succeeded
    /\ DataLength = 2 * chunkSize
    /\ Len(Writes) = 2

(* -------------------------------- C5 ---------------------------------- *)

\* C5: a run over an empty blob issues no rent query and no transaction and
\* does not succeed.
C5_EmptyBlobRejected ==
    (runs > 0 /\ closData.loaded /\ DataLength = 0) =>
        /\ rentQueries = 0
        /\ submitted = << >>
        /\ deploymentStatus.status # "success"

(* -------------------------------- C6 ---------------------------------- *)

\* C6: a run in which nothing threw ends with status success, and a
\* successful run over a blob of length L has submitted exactly
\* 1 + ceil(L/900) + 1 transactions, all confirmed: the account creation, the
\* writes at offsets 0, 900, 1800, ... in this order, the finalize; for
\* L = 2000 these are 5 transactions with writes at 0, 900 and 1800.
C6_EndToEndSuccess ==
    /\ (Terminal /\ thrown = "") => Succeeded
    /\ Succeeded =>
        LET n == CeilDiv(DataLength, chunkSize)
        IN  /\ Len(submitted) = 1 + n + 1
            /\ submitted[1].kind = "createAccount"
            /\ \A i \in 2..(n + 1) :
                  /\ submitted[i].kind = "write"
                  /\ WriteOffset(submitted[i]) = (i - 2) * chunkSize
            /\ submitted[n + 2].kind = "finalize"
            /\ \A i \in DOMAIN submitted : submitted[i].state = "confirmed"
            /\ DataLength = 2000 =>
                  /\ Len(submitted) = 5
                  /\ [i \in DOMAIN Writes |-> WriteOffset(Writes[i])] = << 0, 900, 1800 >>

\* The successful run over the 2000-byte blob.
C6_Witness ==
    /\ Succeeded
    /\ DataLength = 2000
    /\ Len(submitted) = 5

(* -------------------------------- C7 ---------------------------------- *)

\* C7: when every await of a run settles, a run that is deploying reaches
\* status success or error.
C7_Termination ==
    (deploymentStatus.status = "deploying")
        ~> (deploymentStatus.status \in {"success", "error"})

\* A run is over whose loop ran three times, leaving offset beyond the length.
C7_Witness ==
    /\ Terminal
    /\ deploymentStatus.status \in {"success", "error"}
    /\ offset = 3 * chunkSize
    /\ offset > DataLength

(* -------------------------------- C8 ---------------------------------- *)

\* C8: while a run is in progress every step keeps the log it found as a
\* prefix of the log it leaves.
C8_LogAppendOnly ==
    [][ (pc \notin {"none", "done"} /\ runs' = runs)
            => IsPrefix(deploymentStatus.logs, deploymentStatus'.logs) ]_vars

(* -------------------------------- C9 ---------------------------------- *)

\* What failed in the run: the keypair construction, an awaited call.
Failures == {keypairError, thrown} \ {""}

\* C9: a run in which something failed ends with status error, and its log
\* holds a line with the text of every failure.
C9_FailuresPropagate ==
    Terminal =>
        \A f \in Failures :
            /\ deploymentStatus.status = "error"
            /\ \E k \in DOMAIN deploymentStatus.logs : deploymentStatus.logs[k].text = f

(* -------------------------------- C10 --------------------------------- *)

\* The DeploymentState of the specification the component is in, as a rank:
\* 0 Idle, 1 CreatingAccount (connection, rent query, account creation),
\* 2 WritingChunks(offset), 3 Finalizing, 4 Succeeded, 5 Failed.
Phase ==
    CASE deploymentStatus.status = "idle" -> 0
      [] deploymentStatus.status = "deploying" /\ pc \in {"connect", "rent", "create"} -> 1
      [] deploymentStatus.status = "deploying" /\ pc = "write" -> 2
      [] deploymentStatus.status = "deploying" /\ pc = "finalize" -> 3
      [] deploymentStatus.status = "success" -> 4
      [] deploymentStatus.status = "error" -> 5
      [] OTHER -> -1

\* C10: a step of a run never lowers the phase or the offset; Succeeded and
\* Failed are left only by the start of a new run, and nothing is submitted
\* and the status record does not change before that; a new run starts in
\* CreatingAccount at offset 0.
C10_ForwardOnly ==
    [][ IF runs' = runs
        THEN /\ Phase' >= Phase
             /\ offset' >= offset
             /\ Phase \in {4, 5} =>
                   /\ Phase' = Phase
                   /\ submitted' = submitted
                   /\ rentQueries' = rentQueries
                   /\ deploymentStatus' = deploymentStatus
        ELSE /\ Phase' = 1
             /\ offset' = 0 ]_vars

\* A second run has gone through every phase to Succeeded.
C10_Witness ==
    /\ Succeeded
    /\ runs = 2
    /\ offset >= chunkSize
    /\ closLogs # << >>

(* -------------------------------- C11 --------------------------------- *)

\* C11: every transaction handed to sendAndConfirmTransaction that lists the
\* program identity as a signer carries the identity's local signature.
C11_LocalCoSigning ==
    \A i \in DOMAIN submitted :
        \A k \in DOMAIN submitted[i].keys :
            (submitted[i].keys[k].isSigner /\ submitted[i].keys[k].pubkey = programKeypair)
                => programKeypair \in submitted[i].signatures

(* -------------------------------- C12 --------------------------------- *)

\* A step in which the run calls getMinimumBalanceForRentExemption or
\* sendAndConfirmTransaction.
CallIssued ==
    \/ rentQueries' = rentQueries + 1
    \/ txPhase' = "send" /\ txPhase # "send"

\* A step in which one of these calls returns or throws.
CallCompleted ==
    \/ pc = "rent" /\ pc' # "rent"
    \/ txPhase = "send" /\ txPhase' = "-"
    \/ txPhase = "confirm" /\ txPhase' # "confirm"

\* A step that leaves a log with a line the log did not have.
EmitsEvent ==
    /\ deploymentStatus'.logs # << >>
    /\ ~IsPrefix(deploymentStatus'.logs, deploymentStatus.logs)

\* C12: a step of a run is the code from the completion of one awaited call
\* to the issue of the next; every step in which a network call completes or
\* is issued emits a log line, which lies after the completed call and
\* before the issued one.
C12_EventsAroundCalls ==
    [][ (runs' = runs /\ (CallIssued \/ CallCompleted)) => EmitsEvent ]_vars

\* The first write is confirmed and logged, the second is about to be sent.
C12_Witness ==
    /\ pc = "write"
    /\ txPhase = "send"
    /\ offset = chunkSize
    /\ deploymentStatus.logs[Len(deploymentStatus.logs)].msg = "Wrote chunk at offset "

(* -------------------------------- C13 --------------------------------- *)

\* The chunk of the run's blob that starts at off.
BlobSlice(off) == SubSeq(Bytes(closData), off + 1, Min(off + chunkSize, DataLength))

\* C13: the payload of the j-th write is four bytes reading 0, four bytes
\* reading the chunk's offset, both little-endian, and then the chunk's
\* bytes, so that the offset and the bytes are read back from it; a finalize
\* payload is the four bytes 1, 0, 0, 0.
C13_EncodingRoundTrip ==
    /\ \A j \in DOMAIN Writes :
          LET d == Writes[j].data
              off == (j - 1) * chunkSize
          IN  /\ Len(d) = 8 + Len(BlobSlice(off))
              /\ \A k \in 1..8 : d[k] \in 0..255
              /\ SubSeq(d, 1, 4) = << 0, 0, 0, 0 >>
              /\ SubSeq(d, 5, 8) = << off % 256, (off \div 256) % 256, 0, 0 >>
              /\ ReadUInt32LE(d, 1) = 0
              /\ ReadUInt32LE(d, 5) = off
              /\ SubSeq(d, 9, Len(d)) = BlobSlice(off)
    /\ \A i \in DOMAIN submitted :
          submitted[i].kind = "finalize" => submitted[i].data = << 1, 0, 0, 0 >>

\* Three writes, the last one short, and the finalize have been submitted.
C13_Witness ==
    /\ Len(Writes) = 3
    /\ Len(Writes[3].data) = 8 + 200
    /\ submitted[Len(submitted)].kind = "finalize"

(* -------------------------------- C14 --------------------------------- *)

\* Every byte of the run's blob is in a confirmed write: the writes are all
\* confirmed, their bytes in order are the blob, and they end at its length.
BlobWritten ==
    /\ \A j \in DOMAIN Writes : Writes[j].state = "confirmed"
    /\ Concat([j \in DOMAIN Writes |-> WriteBytes(Writes[j])]) = Bytes(closData)
    /\ LastConfirmedEnd = DataLength

SameTx(a, b) == a.kind = b.kind /\ a.data = b.data

\* C15: a step of a run that calls sendAndConfirmTransaction does so when
\* nothing has thrown in the run and with a transaction that was not
\* submitted before in the run; no two submitted transactions of a run are
\* the same; once something has thrown the run calls and submits nothing.
C15_NoRetry ==
    [][ /\ (runs' = runs /\ txPhase' = "send" /\ txPhase # "send") =>
              /\ thrown = ""
              /\ thrown' = ""
              /\ \A i \in DOMAIN submitted : ~SameTx(submitted[i], PendingTx')
        /\ \A i, j \in DOMAIN submitted' :
              i # j => ~SameTx(submitted'[i], submitted'[j])
        /\ (runs' = runs /\ thrown # "") =>
              /\ submitted' = submitted
              /\ txPhase' = "-" ]_vars

\* The submission of the second write failed and the run is over with the
\* account creation and the first write as its only transactions.
C15_Witness ==
    /\ Failed
    /\ thrown = "SubmissionError"
    /\ Len(submitted) = 2
    /\ Len(Writes) = 1
    /\ offset = chunkSize
    /\ DataLength > chunkSize

(* -------------------------------- C16 --------------------------------- *)

\* The program identity a transaction names: newAccountPubkey of the account
\* creation, the signer account of a write or finalize.
IdentityKey(t) == IF t.kind = "createAccount" THEN t.keys[2].pubkey ELSE t.keys[1].pubkey

\* C16: once chosen, the program keypair does not change during the run;
\* every transaction of the run names the key the account creation named,
\* each as a writable signer, and a successful run reports it as programId.
C16_IdentityFixed ==
    [][ /\ (runs' = runs /\ programKeypair # NoKey) => programKeypair' = programKeypair
        /\ \A i \in DOMAIN submitted' :
              /\ IdentityKey(submitted'[i]) = IdentityKey(submitted'[1])
              /\ IdentityKey(submitted'[i]) = programKeypair'
              /\ \E k \in DOMAIN submitted'[i].keys :
                    submitted'[i].keys[k] = Key(programKeypair', TRUE, TRUE)
        /\ deploymentStatus'.status = "success" =>
              /\ submitted' # << >>
              /\ deploymentStatus'.programId = IdentityKey(submitted'[1]) ]_vars

\* A run with a generated keypair has succeeded with two or more writes.
C16_Witness ==
    /\ Succeeded
    /\ Len(Writes) >= 2
    /\ programKeypair = GeneratedKey
    /\ deploymentStatus.programId = GeneratedKey

(* -------------------------------- C17 --------------------------------- *)

\* A call of deployProgram is between its start and its end.
RunInProgress == pc \notin {"none", "done"}

\* C17: the status is deploying exactly while a call of deployProgram is in
\* progress, and a run starts only when none is: the status is not
\* deploying, no call is suspended at an await and no transaction is in
\* flight, so that the transactions submitted while a run is in progress
\* are that run's alone.
C17_SingleRun ==
    [][ /\ (deploymentStatus'.status = "deploying") <=> RunInProgress'
        /\ runs' # runs =>
              /\ runs' = runs + 1
              /\ deploymentStatus.status # "deploying"
              /\ ~RunInProgress
              /\ InFlight = {}
        /\ (runs' = runs /\ RunInProgress) =>
              /\ closData' = closData
              /\ closLogs' = closLogs
              /\ \/ submitted' = submitted
                 \/ /\ Len(submitted') = Len(submitted) + 1
                    /\ SubSeq(submitted', 1, Len(submitted)) = submitted
                 \/ /\ Len(submitted') = Len(submitted)
                    /\ \A i \in 1..(Len(submitted) - 1) : submitted'[i] = submitted[i] ]_vars

\* A second run is waiting for a confirmation.
C17_Witness ==
    /\ runs = 2
    /\ deploymentStatus.status = "deploying"
    /\ txPhase = "confirm"
    /\ InFlight # {}

(* -------------------------------- C18 --------------------------------- *)

\* What a deployment touches: the status record, the run's position and
\* captured values, the calls made to the ledger.
deployment ==
    << deploymentStatus, pc, txPhase, closData, closLogs, offset, payerPublicKey,
       programKeypair, keypairError, error, thrown, minimumBalance, rentQueries,
       submitted, runs >>

\* C18: while the API key, the secret path, the vault account id or the
\* program data is missing, no step (a click on Deploy among them) starts a
\* run, calls the ledger or the signer, or changes the status record; the
\* step that shows the "Missing required fields" toast is taken with an
\* input missing and changes nothing but the toast.
C18_RejectedDeployChangesNothing ==
    [][ /\ (apiKey = "" \/ apiSecretPath = "" \/ vaultAccountId = "" \/ ~programData.loaded)
              => UNCHANGED deployment
        /\ (toast' = "Missing required fields" /\ toast # toast') =>
              /\ apiKey = "" \/ apiSecretPath = "" \/ vaultAccountId = "" \/ ~programData.loaded
              /\ UNCHANGED << deployment, env, programData >> ]_vars

\* Deploy was clicked with a file loaded and an environment value missing.
C18_Witness ==
    /\ toast = "Missing required fields"
    /\ programData.loaded
    /\ apiKey = ""
    /\ deploymentStatus = IdleStatus
    /\ submitted = << >>

(* -------------------------------- C19 --------------------------------- *)

\* C19: the status record carries a programId exactly when its status is
\* success; the status becomes success only in the step that confirms the
\* run's finalize transaction, with the run's program key as programId; the
\* start of a run and a failure leave a record without programId.
C19_ProgramIdIffSuccess ==
    [][ /\ (deploymentStatus'.programId # NoProgramId)
              <=> (deploymentStatus'.status = "success")
        /\ deploymentStatus'.status = "success" =>
              /\ submitted' # << >>
              /\ submitted'[Len(submitted')].kind = "finalize"
              /\ submitted'[Len(submitted')].state = "confirmed"
              /\ deploymentStatus'.programId = programKeypair'
        /\ (deploymentStatus'.status = "success" /\ deploymentStatus.status # "success") =>
              /\ pc = "finalize"
              /\ txPhase = "confirm"
        /\ runs' # runs => deploymentStatus'.programId = NoProgramId
        /\ deploymentStatus'.status = "error" => deploymentStatus'.programId = NoProgramId ]_vars

\* A run has failed after an earlier run succeeded: no programId is left.
C19_Witness ==
    /\ Failed
    /\ runs = 2
    /\ closLogs # << >>
    /\ closLogs[Len(closLogs)].msg = "Program deployment completed successfully!"
    /\ deploymentStatus.programId = NoProgramId

====
